---------------------------- MODULE Spec2Model ----------------------------
(***************************************************************************)
(* Model of the call orchestration and failure-replay pipeline of          *)
(* src/src/call.rs (tonos-cli).                                            *)
(*                                                                         *)
(* One process runs invocations of the public entry points one after the   *)
(* other.  Every `.await` of the source is a step of the model; the        *)
(* synchronous code between two awaits belongs to the action of the await  *)
(* that precedes it.  The outcome of every call into an external           *)
(* collaborator (SDK, network, executor, helpers) is chosen                 *)
(* nondeterministically among the values its return type allows.           *)
(*                                                                         *)
(* Strings are sequences of string tokens (the empty string is << >>),     *)
(* so that formatting is not the identity and "" can be told from a        *)
(* descriptive message.                                                    *)
(***************************************************************************)
EXTENDS Integers, Sequences, FiniteSets, TLC

VARIABLES
    pc,          \* position of the running invocation
    entry,       \* the public function that was invoked
    ncalls,      \* invocations started in this process
    logger_set,  \* process-global: log::set_boxed_logger has succeeded once
    is_json,     \* config.is_json
    async_call,  \* config.async_call
    local_run,   \* config.local_run
    debug_fail,  \* config.debug_fail (TraceLevel)
    is_fee,      \* argument is_fee
    msg_params,  \* the prepared call (ParamsOfEncodeMessage)
    encoded,     \* local `msg` of call_contract_with_client / call_contract_with_msg
    message,     \* local `message: Option<String>`
    state,       \* local `state` of emulate_locally (account handed to the executor)
    dump,        \* local `dump: Option<(bc_config, account, message, now)>`
    res,         \* local `res` (Result<Value, ClientError>) of process_message
    tx,          \* the finalized transaction reported by the network, if any
    submitted,   \* messages handed to the network, in order
    replayed,    \* messages handed to execute_debug, in order
    executor,    \* parameters of the run_executor calls, in order
    calls,       \* external operations that have returned, in order
    out,         \* lines printed on stdout, in order
    ret,         \* what the pipeline returned (call_contract_with_client / _with_result)
    final,       \* what the entry point returned
    events,      \* ProcessingEvents the SDK delivered to the callback, in order
    fn_args,     \* arguments of the synchronous function under study
    fn_result    \* what that function returned

vars == << pc, entry, ncalls, logger_set, is_json, async_call, local_run,
           debug_fail, is_fee, msg_params, encoded, message, state, dump, res,
           tx, submitted, replayed, executor, calls, out, ret, final,
           events, fn_args, fn_result >>

\* the state of the synchronous builders (parse_params, serialize_config_param,
\* prepare_message_new_config_param), which the pipeline never touches
pure == << fn_args, fn_result >>

config == << is_json, async_call, local_run, debug_fail, is_fee >>

-----------------------------------------------------------------------------
(* Bounds of the model *)

\* invocations of an entry point in one process
MaxInvocations == 2
\* distinct prepared calls (address, method, params, header, keys)
NumCalls == 2

-----------------------------------------------------------------------------
(* Program constants and value domains *)

\* helpers::SDK_EXECUTION_ERROR_CODE, imported at call.rs:17
SDK_EXECUTION_ERROR_CODE == 414

\* codes a ClientError may carry: the recognized one and its neighbours
ErrorCodes == (SDK_EXECUTION_ERROR_CODE - 1) .. (SDK_EXECUTION_ERROR_CODE + 1)

TraceLevels == {"None", "Minimal", "Full"}

Entries == {"call_contract", "call_contract_with_client", "call_contract_with_msg"}

\* decoded outputs a transaction may carry
Outputs == {"{\"value\":42}", "{\"ok\":true}"}

\* ResultOfProcessMessage / ResultOfWaitForTransaction: decoded: Option<DecodedOutput>,
\* DecodedOutput.output: Option<Value>
Transactions ==
    { [decoded |-> FALSE, has_output |-> FALSE, output |-> ""],
      [decoded |-> TRUE,  has_output |-> FALSE, output |-> ""] }
    \cup { [decoded |-> TRUE, has_output |-> TRUE, output |-> o] : o \in Outputs }

NoTx == [decoded |-> FALSE, has_output |-> FALSE, output |-> "no transaction"]

None == [some |-> FALSE]
Some(v) == [some |-> TRUE, v |-> v]

\* Result<Value, String>
Ok(v) == [ok |-> TRUE, val |-> v, err |-> << >>]
Err(e) == [ok |-> FALSE, val |-> "", err |-> e]
Pending == [ok |-> FALSE, val |-> "pending", err |-> << >>]

\* Result<_, ClientError>
ClientOk(v) == [ok |-> TRUE, val |-> v, code |-> 0]
ClientErr(c) == [ok |-> FALSE, val |-> "", code |-> c]
NoRes == [ok |-> FALSE, val |-> "unset", code |-> 0]

\* format!("{:#}", e) of a ClientError: the pretty-printed JSON holds the code
FormatClientError(code) == << "ClientError", ToString(code) >>

\* TraceLevel::enabled(): every level but None
Enabled(level) == level # "None"

\* mutant of EncodeMessage: the header's time is taken from the clock at the
\* moment of the encoding instead of the prepared call
EncodeMessage_FromClock(params) == << "boc", params, Len(calls) >>

\* encode_message of the SDK: deterministic in its parameters (the header's
\* time and expire are fixed in the prepared call)
EncodeMessage(params) == << "boc", params >>

\* a record of a returned external operation
Call(op, by, ok) == [op |-> op, by |-> by, ok |-> ok, code |-> 0]

\* the same for an operation that fails with a ClientError of code c
CallC(op, by, ok, c) == [op |-> op, by |-> by, ok |-> ok, code |-> IF ok THEN 0 ELSE c]


-----------------------------------------------------------------------------
(* Decisions of the orchestrator, one operator per condition of the source *)

\* mutant of needs_encoded_msg: diagnostic mode does not ask for the message
needs_encoded_msg_WithoutDebug == is_fee \/ async_call \/ local_run

\* call.rs:400-403
needs_encoded_msg == is_fee \/ async_call \/ local_run \/ Enabled(debug_fail)

\* call.rs:409  if config.local_run || is_fee
EmulatesLocally == local_run \/ is_fee

\* mutant of ReturnsAfterEmulation: a fee estimation goes on to the submission
ReturnsAfterEmulation_Never == FALSE

\* call.rs:411  if is_fee { return Ok(Value::Null) }
ReturnsAfterEmulation == is_fee

\* mutant of SubmitsAsync: the asynchronous branch is never taken
SubmitsAsync_Never == FALSE

\* call.rs:415  if config.async_call { return send_message_and_wait(..) }
SubmitsAsync == async_call

\* mutant of TakesSnapshot: the snapshot is skipped
TakesSnapshot_Never == FALSE

\* call.rs:432  let dump = if config.debug_fail.enabled()
TakesSnapshot == Enabled(debug_fail)

\* mutant of StartsReplay: any submission error triggers the replay
StartsReplay_AnyCode(r) == Enabled(debug_fail) /\ ~r.ok

\* mutant of StartsReplay: the code is compared with >= instead of ==
StartsReplay_FromCode(r) ==
    Enabled(debug_fail) /\ ~r.ok /\ r.code >= SDK_EXECUTION_ERROR_CODE

\* call.rs:460-461  the trigger of the replay
StartsReplay(r) ==
    Enabled(debug_fail) /\ ~r.ok /\ r.code = SDK_EXECUTION_ERROR_CODE

\* mutant of SynthesizesAccount: a dummy account replaces any failed fetch
SynthesizesAccount_Always == TRUE

\* call.rs:217-218  a failed fetch is replaced by a dummy account in fee mode
SynthesizesAccount == is_fee

\* mutant of unlimited_balance: the balance is always unlimited
unlimited_balance_Always == TRUE

\* call.rs:240-244  unlimited_balance: if is_fee { Some(true) } else { None }
unlimited_balance == is_fee

\* mutant of WaitsForTransaction: the transaction is always waited for
WaitsForTransaction_Always == TRUE

\* call.rs:295  if !config.async_call { wait_for_transaction(..) }
WaitsForTransaction == ~async_call

\* mutant of DecodedOutput: the decoded output is dropped
DecodedOutput_Dropped(t) == "{}"

\* call.rs:308, 346  decoded.and_then(|d| d.output).unwrap_or(json!({}))
DecodedOutput(t) == IF t.decoded /\ t.has_output THEN t.output ELSE "{}"

\* mutant of ExecutorFailed: the executor's failure is swallowed
ExecutorFailed_Swallowed(ok) == FALSE

\* call.rs:251  if res.is_err() { return Err(..) }
ExecutorFailed(ok) == ~ok

\* call.rs:288  send_message: send_events: false, and a callback that does nothing
SendEventsOnSend == FALSE

\* mutant of SendEventsOnProcess: process_message does not ask for events
SendEventsOnProcess_Off == FALSE

\* call.rs:329, 339  process_message: send_events: true
SendEventsOnProcess == TRUE

\* ProcessingEvent::DidSend { message_id, .. } (call.rs:320): the identifier
\* is the hash of the message
DidSend(msg) == [type |-> "DidSend", message_id |-> << "id" >> \o msg]

\* the SDK delivers DidSend to the callback when the message has been
\* accepted and the call asked for events
Delivered(send_events, msg) == IF send_events THEN << DidSend(msg) >> ELSE << >>

\* call.rs:482-493  print_json_result
print_json_result(value) ==
    IF value # "null"
    THEN IF ~is_json THEN << "Result: ", value >> ELSE << value >>
    ELSE << >>

\* call.rs:506-508  call_contract: println!("Succeeded.") after the `?`
PrintSucceeded == IF ~is_json THEN << "Succeeded." >> ELSE << >>

\* call.rs:254-266  the report of emulate_locally on success
FeeFields ==
    << "in_msg_fwd_fee", "storage_fee", "gas_fee", "out_msgs_fwd_fee",
       "total_account_fees", "total_output" >>

EmulationReport ==
    IF is_fee THEN << "{" >> \o FeeFields \o << "}" >>
    ELSE << "Local run succeeded. Executing onchain." >>

\* call.rs:277-279  send_message_and_wait announces itself before sending
PrintProcessing == IF ~is_json THEN << "Processing... " >> ELSE << >>

\* call.rs:426-430
PrintExpire == IF ~is_json THEN << "Expire at: " >> ELSE << >>

\* call.rs:462-467
PrintExecutionError(code) ==
    IF is_json THEN FormatClientError(code)
    ELSE << "Error: " >> \o FormatClientError(code)
         \o << "Execution failed. Starting debug..." >>

\* call.rs:473-476
PrintDebugFinished ==
    IF ~is_json THEN << "Debug finished.", "Log saved to TRACE_PATH" >> ELSE << >>

-----------------------------------------------------------------------------
(* Returning to the invoker *)

\* The pipeline returns r with o printed so far; the entry point finishes:
\* call_contract (call.rs:505-510) prints and maps the value to (),
\* call_contract_with_msg (call.rs:535-544) likewise.
Return(r, o) ==
    /\ pc' = "done"
    /\ ret' = r
    /\ IF entry = "call_contract_with_client"
       THEN final' = r /\ out' = o
       ELSE IF ~r.ok
       THEN final' = r /\ out' = o
       ELSE IF entry = "call_contract"
       THEN final' = Ok("()") /\ out' = o \o PrintSucceeded \o print_json_result(r.val)
       ELSE /\ final' = Ok("()")
            /\ out' = o \o (IF ~is_json
                             THEN << "Succeeded." >> \o print_json_result(r.val)
                             ELSE << >>)

\* the invocation goes on at position p with o printed so far
Goto(p, o) ==
    /\ pc' = p
    /\ out' = o
    /\ UNCHANGED << ret, final >>

\* a panic (unwrap on None) aborts the process
Panic(o) ==
    /\ pc' = "panicked"
    /\ out' = o
    /\ UNCHANGED << ret, final >>

\* call.rs:426-456  after `message` is bound: print the expiration, then
\* either start the snapshot or go to the submission
AfterMessage(o) ==
    IF TakesSnapshot
    THEN Goto("fetch_account", o \o PrintExpire)
    ELSE Goto("process_message", o \o PrintExpire)

\* call.rs:411-421  after the optional emulation: return, submit
\* asynchronously, or keep the encoded message
AfterEmulation(msg, o) ==
    IF SubmitsAsync
    THEN /\ Goto("send_message", o \o PrintProcessing)
         /\ UNCHANGED message
    ELSE /\ message' = Some(msg)
         /\ AfterMessage(o)

invocation == << entry, ncalls, is_json, async_call, local_run, debug_fail, is_fee >>

-----------------------------------------------------------------------------
(* The process *)

\* no invocation of the pipeline has started
PipelineIdle ==
    /\ pc = "idle"
    /\ entry = "call_contract"
    /\ ncalls = 0
    /\ logger_set = FALSE
    /\ is_json = FALSE
    /\ async_call = FALSE
    /\ local_run = FALSE
    /\ debug_fail = "None"
    /\ is_fee = FALSE
    /\ msg_params = 0
    /\ encoded = << >>
    /\ message = None
    /\ state = "none"
    /\ dump = None
    /\ res = NoRes
    /\ tx = NoTx
    /\ submitted = << >>
    /\ replayed = << >>
    /\ executor = << >>
    /\ calls = << >>
    /\ out = << >>
    /\ ret = Pending
    /\ final = Pending
    /\ events = << >>

Init ==
    /\ PipelineIdle
    /\ fn_args = << >>
    /\ fn_result = << >>

\* The invoker calls an entry point with a configuration and arguments.
Invoke ==
    /\ pc \in {"idle", "done"}
    /\ ncalls < MaxInvocations
    /\ ncalls' = ncalls + 1
    /\ \E e \in Entries, j \in BOOLEAN, a \in BOOLEAN, l \in BOOLEAN,
          d \in TraceLevels, f \in BOOLEAN :
          /\ e = "call_contract_with_msg" => ~f
          /\ entry' = e
          /\ is_json' = j
          /\ async_call' = a
          /\ local_run' = l
          /\ debug_fail' = d
          /\ is_fee' = f
          /\ pc' = IF e = "call_contract" THEN "call_contract_with_result" ELSE e
    /\ msg_params' = 0
    /\ encoded' = << >>
    /\ message' = None
    /\ state' = "none"
    /\ dump' = None
    /\ res' = NoRes
    /\ tx' = NoTx
    /\ submitted' = << >>
    /\ replayed' = << >>
    /\ executor' = << >>
    /\ calls' = << >>
    /\ out' = << >>
    /\ ret' = Pending
    /\ final' = Pending
    /\ events' = << >>
    /\ UNCHANGED << logger_set, pure >>

\* call.rs:349-369
call_contract_with_result ==
    /\ pc = "call_contract_with_result"
    /\ IF Enabled(debug_fail) /\ logger_set
       THEN \* log::set_boxed_logger fails: a logger is already installed
            /\ calls' = Append(calls, Call("set_boxed_logger", "call_contract_with_result", FALSE))
            /\ Return(Err(<< "Failed to set logger: ", "SetLoggerError" >>), out)
            /\ UNCHANGED logger_set
       ELSE /\ logger_set' = (logger_set \/ Enabled(debug_fail))
            /\ \E ok \in BOOLEAN :
                 /\ calls' = Append(calls, Call("create_client", "call_contract_with_result", ok))
                 /\ IF ok THEN Goto("call_contract_with_client", out)
                    ELSE Return(Err(<< "create_client" >>), out)
    /\ UNCHANGED << pure, events, invocation, msg_params, encoded, message, state, dump, res, tx,
                    submitted, replayed, executor >>

\* call.rs:382-403  load_abi, now, prepare_message_params: all synchronous
call_contract_with_client ==
    /\ pc = "call_contract_with_client"
    /\ \E failed \in {"", "load_abi", "now", "prepare_message_params"}, p \in 1 .. NumCalls :
         IF failed # ""
         THEN /\ calls' = Append(calls, Call(failed, "call_contract_with_client", FALSE))
              /\ Return(Err(<< failed >>), out)
              /\ UNCHANGED << msg_params, message >>
         ELSE /\ calls' = Append(calls, Call("prepare_message_params", "call_contract_with_client", TRUE))
              /\ msg_params' = p
              /\ IF needs_encoded_msg
                 THEN Goto("encode_message", out) /\ UNCHANGED message
                 ELSE message' = None /\ AfterMessage(out)
    /\ UNCHANGED << pure, events, invocation, logger_set, encoded, state, dump, res, tx,
                    submitted, replayed, executor >>

\* call.rs:406-407  encode_message(..).await, then the branch that follows
encode_message ==
    /\ pc = "encode_message"
    /\ \E ok \in BOOLEAN, c \in ErrorCodes :
         /\ calls' = Append(calls, CallC("encode_message", "call_contract_with_client", ok, c))
         /\ IF ~ok
            THEN /\ Return(Err(<< "failed to create inbound message: " >>
                               \o FormatClientError(c)), out)
                 /\ UNCHANGED << encoded, message >>
            ELSE /\ encoded' = EncodeMessage(msg_params)
                 /\ IF EmulatesLocally
                    THEN Goto("emulate_locally", out) /\ UNCHANGED message
                    ELSE AfterEmulation(EncodeMessage(msg_params), out)
    /\ UNCHANGED << pure, events, invocation, logger_set, msg_params, state, dump, res, tx,
                    submitted, replayed, executor >>


\* the function that called send_message_and_wait
Caller == IF entry = "call_contract_with_msg" THEN entry ELSE "call_contract_with_client"

\* call.rs:215-233  emulate_locally: fetch the account, or make a dummy one
emulate_locally ==
    /\ pc = "emulate_locally"
    /\ \E ok \in BOOLEAN, dummy_ok \in BOOLEAN :
         LET fetch == Call("query_account_field(addr)", "emulate_locally", ok)
             fails == Call("emulate_locally", "call_contract_with_client", FALSE)
         IN IF ok
            THEN /\ calls' = Append(calls, fetch)
                 /\ state' = "fetched"
                 /\ Goto("run_executor", out)
            ELSE IF SynthesizesAccount
            THEN IF dummy_ok
                 THEN /\ calls' = Append(calls, fetch)
                      /\ state' = "dummy"
                      /\ Goto("run_executor", out)
                 ELSE /\ calls' = calls \o << fetch, fails >>
                      /\ Return(Err(<< "couldn't create dummy account for deploy emulation: " >>), out)
                      /\ UNCHANGED state
            ELSE /\ calls' = calls \o << fetch, fails >>
                 /\ Return(Err(<< "query_account_field(addr)" >>), out)
                 /\ UNCHANGED state
    /\ UNCHANGED << pure, events, invocation, logger_set, msg_params, encoded, message, dump, res, tx,
                    submitted, replayed, executor >>

\* call.rs:234-268  run_executor(..).await and the report; then call.rs:411-421
run_executor ==
    /\ pc = "run_executor"
    /\ executor' = Append(executor, [account |-> state,
                                     unlimited_balance |-> unlimited_balance,
                                     message |-> encoded])
    /\ \E ok \in BOOLEAN, c \in ErrorCodes :
         /\ calls' = calls \o << CallC("run_executor", "emulate_locally", ok, c),
                                 CallC("emulate_locally", "call_contract_with_client", ok, c) >>
         /\ IF ExecutorFailed(ok)
            THEN Return(Err(FormatClientError(c)), out) /\ UNCHANGED message
            ELSE IF ReturnsAfterEmulation
            THEN Return(Ok("null"), out \o EmulationReport) /\ UNCHANGED message
            ELSE AfterEmulation(encoded, out \o EmulationReport)
    /\ UNCHANGED << pure, events, invocation, logger_set, msg_params, encoded, state, dump, res, tx,
                    submitted, replayed >>

\* call.rs:283-312  send_message(..).await; asynchronous mode returns here
send_message ==
    /\ pc = "send_message"
    /\ \E ok \in BOOLEAN, c \in ErrorCodes :
         LET sent == CallC("send_message", "send_message_and_wait", ok, c)
         IN IF ~ok
            THEN /\ calls' = calls \o << sent, CallC("send_message_and_wait", Caller, FALSE, c) >>
                 /\ Return(Err(FormatClientError(c)), out)
                 /\ UNCHANGED << submitted, events >>
            ELSE /\ submitted' = Append(submitted, encoded)
                 /\ events' = events \o Delivered(SendEventsOnSend, encoded)
                 /\ IF WaitsForTransaction
                    THEN /\ calls' = Append(calls, sent)
                         /\ Goto("wait_for_transaction", out)
                    ELSE /\ calls' = calls \o << sent, Call("send_message_and_wait", Caller, TRUE) >>
                         /\ Return(Ok("{}"), out)
    /\ UNCHANGED << pure, invocation, logger_set, msg_params, encoded, message, state, dump, res,
                    tx, replayed, executor >>

\* call.rs:296-308  wait_for_transaction(..).await and the decoded output
wait_for_transaction ==
    /\ pc = "wait_for_transaction"
    /\ \E ok \in BOOLEAN, c \in ErrorCodes, t \in Transactions :
         /\ calls' = calls \o << CallC("wait_for_transaction", "send_message_and_wait", ok, c),
                                 CallC("send_message_and_wait", Caller, ok, c) >>
         /\ IF ~ok
            THEN Return(Err(FormatClientError(c)), out) /\ UNCHANGED tx
            ELSE tx' = t /\ Return(Ok(DecodedOutput(t)), out)
    /\ UNCHANGED << pure, events, invocation, logger_set, msg_params, encoded, message, state, dump, res,
                    submitted, replayed, executor >>

\* call.rs:433-441  the target account's snapshot
fetch_account ==
    /\ pc = "fetch_account"
    /\ \E failed \in {"", "query_account_field(addr)", "Account::construct_from_base64",
                      "Account::serialize"} :
         IF failed = ""
         THEN /\ calls' = calls \o << Call("query_account_field(addr)", "call_contract_with_client", TRUE),
                                      Call("Account::construct_from_base64", "call_contract_with_client", TRUE) >>
              /\ Goto("fetch_config", out)
         ELSE /\ calls' = (IF failed = "query_account_field(addr)" THEN calls
                           ELSE Append(calls, Call("query_account_field(addr)",
                                                   "call_contract_with_client", TRUE)))
                          \o << Call(failed, "call_contract_with_client", FALSE) >>
              /\ Return(Err(<< failed >>), out)
    /\ UNCHANGED << pure, events, invocation, logger_set, msg_params, encoded, message, state, dump, res,
                    tx, submitted, replayed, executor >>

\* call.rs:443-453  the config account's snapshot, the blockchain config, the tuple
fetch_config ==
    /\ pc = "fetch_config"
    /\ \E failed \in {"", "query_account_field(CONFIG_ADDR)",
                      "Account::construct_from_base64(config_acc)",
                      "construct_blockchain_config"} :
         IF failed = ""
         THEN /\ calls' = calls \o << Call("query_account_field(CONFIG_ADDR)", "call_contract_with_client", TRUE),
                                      Call("construct_blockchain_config", "call_contract_with_client", TRUE) >>
              /\ IF message.some
                 THEN /\ dump' = Some([bc_config |-> "bc_config", account |-> "account",
                                       message |-> message.v])
                      /\ Goto("process_message", out)
                 ELSE Panic(out) /\ UNCHANGED dump
         ELSE /\ calls' = (IF failed = "query_account_field(CONFIG_ADDR)" THEN calls
                           ELSE Append(calls, Call("query_account_field(CONFIG_ADDR)",
                                                   "call_contract_with_client", TRUE)))
                          \o << Call(failed, "call_contract_with_client", FALSE) >>
              /\ Return(Err(<< failed >>), out)
              /\ UNCHANGED dump
    /\ UNCHANGED << pure, events, invocation, logger_set, msg_params, encoded, message, state, res,
                    tx, submitted, replayed, executor >>

\* call.rs:314-347 process_message, then call.rs:458-470, 479 in the caller.
\* The SDK encodes the prepared call, sends it (the DidSend event) and waits.
process_message ==
    /\ pc = "process_message"
    /\ \E ok \in BOOLEAN, sent \in BOOLEAN, c \in ErrorCodes, t \in Transactions,
          msg_ok \in BOOLEAN :
         LET r == IF ok THEN ClientOk(DecodedOutput(t)) ELSE ClientErr(c)
             sends == IF sent THEN Delivered(SendEventsOnProcess, EncodeMessage(msg_params))
                      ELSE << >>
             event == IF sends # << >> /\ ~is_json THEN << "MessageId: " >> ELSE << >>
             done == CallC("process_message", "call_contract_with_client", ok, c)
         IN /\ ok => sent
            /\ res' = r
            /\ tx' = IF ok THEN t ELSE tx
            /\ submitted' = IF sent THEN Append(submitted, EncodeMessage(msg_params))
                            ELSE submitted
            /\ events' = events \o sends
            /\ IF StartsReplay(r)
               THEN IF ~dump.some
                    THEN /\ Panic(out \o event \o PrintExecutionError(c))
                         /\ calls' = Append(calls, done)
                    ELSE IF msg_ok
                    THEN /\ calls' = calls \o << done, Call("Message::construct_from_base64",
                                                           "call_contract_with_client", TRUE) >>
                         /\ Goto("execute_debug", out \o event \o PrintExecutionError(c))
                    ELSE /\ calls' = calls \o << done, Call("Message::construct_from_base64",
                                                           "call_contract_with_client", FALSE) >>
                         /\ Return(Err(<< "failed to construct message: " >>),
                                   out \o event \o PrintExecutionError(c))
               ELSE /\ calls' = Append(calls, done)
                    /\ Return(IF ok THEN Ok(r.val) ELSE Err(FormatClientError(c)),
                              out \o event)
    /\ UNCHANGED << pure, invocation, logger_set, msg_params, encoded, message, state, dump,
                    replayed, executor >>

\* call.rs:471-477  execute_debug(..).await?; return Err("")
execute_debug ==
    /\ pc = "execute_debug"
    /\ replayed' = Append(replayed, dump.v.message)
    /\ \E ok \in BOOLEAN :
         /\ calls' = Append(calls, Call("execute_debug", "call_contract_with_client", ok))
         /\ IF ok
            THEN Return(Err(<< >>), out \o PrintDebugFinished)
            ELSE Return(Err(<< "execute_debug" >>), out)
    /\ UNCHANGED << pure, events, invocation, logger_set, msg_params, encoded, message, state, dump, res,
                    tx, submitted, executor >>

\* an entry point of call_contract_with_msg fails before the submission
Abort(e) ==
    /\ pc' = "done"
    /\ final' = Err(e)
    /\ UNCHANGED << ret, out >>

\* call.rs:515-522  create_client_verbose, load_abi, unpack_message
call_contract_with_msg ==
    /\ pc = "call_contract_with_msg"
    /\ \E failed \in {"", "create_client_verbose", "load_abi", "unpack_message"},
          p \in 1 .. NumCalls :
         IF failed # ""
         THEN /\ calls' = Append(calls, Call(failed, "call_contract_with_msg", FALSE))
              /\ Abort(<< failed >>)
              /\ UNCHANGED encoded
         ELSE /\ calls' = Append(calls, Call("unpack_message", "call_contract_with_msg", TRUE))
              /\ encoded' = << "boc", p >>
              /\ Goto("decode_message",
                      out \o (IF is_json THEN << "{" >> ELSE << >>) \o << "print_encoded_message" >>)
    /\ UNCHANGED << pure, events, invocation, logger_set, msg_params, message, state, dump, res, tx,
                    submitted, replayed, executor >>

\* call.rs:524-535  decode_call_parameters(..).await, the announcement, then
\* send_message_and_wait is entered
decode_message ==
    /\ pc = "decode_message"
    /\ \E ok \in BOOLEAN :
         /\ calls' = Append(calls, Call("decode_message", "call_contract_with_msg", ok))
         /\ IF ~ok
            THEN Abort(<< "couldn't decode message: " >>)
            ELSE Goto("send_message",
                      out \o (IF ~is_json
                              THEN << "Calling method", "parameters", "Processing... " >>
                              ELSE << "Method", "Parameters", "}" >>)
                          \o PrintProcessing)
    /\ UNCHANGED << pure, events, invocation, logger_set, msg_params, encoded, message, state, dump, res,
                    tx, submitted, replayed, executor >>

Next ==
    \/ Invoke
    \/ call_contract_with_result
    \/ call_contract_with_client
    \/ encode_message
    \/ emulate_locally
    \/ run_executor
    \/ send_message
    \/ wait_for_transaction
    \/ fetch_account
    \/ fetch_config
    \/ process_message
    \/ execute_debug
    \/ call_contract_with_msg
    \/ decode_message

Spec == Init /\ [][Next]_vars


-----------------------------------------------------------------------------
(* Vocabulary of the properties *)

\* the invocation runs call_contract_with_client
InClient == entry \in {"call_contract", "call_contract_with_client"}

Returned(op) == \E i \in DOMAIN calls : calls[i].op = op
Succeeded(op) == \E i \in DOMAIN calls : calls[i].op = op /\ calls[i].ok
Failed(op) == \E i \in DOMAIN calls : calls[i].op = op /\ ~calls[i].ok
Count(op) == Cardinality({ i \in DOMAIN calls : calls[i].op = op })

\* operations of the replay (call.rs:468-471)
ReplayOps == {"Message::construct_from_base64", "execute_debug"}

\* fetches of the replay snapshot (call.rs:433-447)
SnapshotFetches ==
    { i \in DOMAIN calls : /\ calls[i].by = "call_contract_with_client"
                           /\ calls[i].op \in {"query_account_field(addr)",
                                               "query_account_field(CONFIG_ADDR)"} }

\* operations that hand the message to the network
SubmitOps == {"send_message", "process_message"}

ReplayStarted == \E i \in DOMAIN calls : calls[i].op \in ReplayOps

\* both snapshots have been fetched among the first n returned operations
SnapshotsFetchedBefore(n) ==
    /\ \E i \in SnapshotFetches :
          i < n /\ calls[i].ok /\ calls[i].op = "query_account_field(addr)"
    /\ \E i \in SnapshotFetches :
          i < n /\ calls[i].ok /\ calls[i].op = "query_account_field(CONFIG_ADDR)"

\* o holds the lines of part, one after the other
Prints(o, part) ==
    \E k \in 0 .. (Len(o) - Len(part)) : SubSeq(o, k + 1, k + Len(part)) = part

-----------------------------------------------------------------------------
(* C1 *)

\* C1, as stated: the replay runs only with diagnostic mode enabled and a
\* submission error carrying the execution-error code; for every other error
\* code, and whenever diagnostic mode is disabled, the error is the terminal
\* failure, no replay runs and no replay snapshot is fetched.
C1_AsStated ==
    InClient =>
      /\ ReplayStarted =>
           Enabled(debug_fail) /\ Failed("process_message")
           /\ res.code = SDK_EXECUTION_ERROR_CODE
      /\ ( /\ pc = "done"
           /\ Failed("process_message")
           /\ (res.code # SDK_EXECUTION_ERROR_CODE \/ ~Enabled(debug_fail)) )
         => /\ ret = Err(<< "ClientError", ToString(res.code) >>)
            /\ ~ReplayStarted
            /\ SnapshotFetches = {}

\* C1, amended: the replay runs only with diagnostic mode enabled and a
\* submission error carrying the execution-error code; for every other error
\* code, and whenever diagnostic mode is disabled, the error is the terminal
\* failure and no replay runs; no replay snapshot is fetched when diagnostic
\* mode is disabled (with it enabled the snapshot of a synchronous call is
\* taken before the submission, whatever the error code turns out to be).
C1_ReplayOnlyOnExecutionError ==
    InClient =>
      /\ ReplayStarted =>
           Enabled(debug_fail) /\ Failed("process_message")
           /\ res.code = SDK_EXECUTION_ERROR_CODE
      /\ ( /\ pc = "done"
           /\ Failed("process_message")
           /\ (res.code # SDK_EXECUTION_ERROR_CODE \/ ~Enabled(debug_fail)) )
         => /\ ret = Err(<< "ClientError", ToString(res.code) >>)
            /\ ~ReplayStarted
      /\ ~Enabled(debug_fail) => SnapshotFetches = {} /\ ~dump.some

\* a synchronous call in diagnostic mode failed with another code: terminal
\* failure, no replay, though the snapshot had been taken
C1_Witness ==
    /\ InClient /\ pc = "done"
    /\ Enabled(debug_fail)
    /\ Failed("process_message")
    /\ res.code = SDK_EXECUTION_ERROR_CODE + 1
    /\ ret = Err(<< "ClientError", ToString(SDK_EXECUTION_ERROR_CODE + 1) >>)
    /\ ~ReplayStarted
    /\ dump.some

-----------------------------------------------------------------------------
(* C2 *)

\* the part of C2 that does not depend on the submission path: the message
\* is encoded before any local emulation, and the replay starts only after
\* process_message has returned
C2_EncodeAndReplayOrder ==
    /\ \A i \in DOMAIN calls :
         calls[i].by = "emulate_locally" =>
           \E j \in 1 .. (i - 1) : calls[j].op = "encode_message" /\ calls[j].ok
    /\ pc \in {"emulate_locally", "run_executor"} =>
         Succeeded("encode_message") /\ encoded # << >>
    /\ \A i \in DOMAIN calls :
         calls[i].op \in ReplayOps =>
           \E j \in 1 .. (i - 1) : calls[j].op = "process_message"
    /\ pc = "execute_debug" => Returned("process_message")

\* C2, as stated: encoding precedes emulation; with diagnostic mode enabled
\* both snapshots are fetched before the message is submitted; the replay
\* starts only after the submission has returned.
C2_AsStated ==
    InClient =>
      /\ C2_EncodeAndReplayOrder
      /\ Enabled(debug_fail) =>
           /\ pc \in {"send_message", "process_message"} =>
                SnapshotsFetchedBefore(Len(calls) + 1)
           /\ \A i \in DOMAIN calls :
                calls[i].op \in SubmitOps => SnapshotsFetchedBefore(i)

\* C2, amended: encoding precedes emulation; with diagnostic mode enabled
\* both snapshots are fetched before the message is submitted by a
\* synchronous call (an asynchronous call submits without any snapshot);
\* the replay starts only after the submission has returned.
C2_StagesOrdered ==
    InClient =>
      /\ C2_EncodeAndReplayOrder
      /\ Enabled(debug_fail) =>
           /\ pc = "process_message" =>
                SnapshotsFetchedBefore(Len(calls) + 1) /\ dump.some
           /\ \A i \in DOMAIN calls :
                calls[i].op = "process_message" => SnapshotsFetchedBefore(i)
           /\ pc = "send_message" \/ Returned("send_message") =>
                async_call /\ SnapshotFetches = {}

\* a synchronous diagnostic call that emulated locally, took both snapshots,
\* submitted and then replayed
C2_Witness ==
    /\ InClient /\ pc = "done"
    /\ Enabled(debug_fail) /\ local_run
    /\ Succeeded("run_executor")
    /\ SnapshotsFetchedBefore(Len(calls))
    /\ Failed("process_message")
    /\ Returned("execute_debug")


-----------------------------------------------------------------------------
(* C3 *)

\* a synchronous call in diagnostic mode whose submission failed with the
\* execution-error code
ExecutionFailureDiagnosed ==
    /\ InClient
    /\ Enabled(debug_fail)
    /\ \E i \in DOMAIN calls :
         /\ calls[i].op = "process_message"
         /\ ~calls[i].ok
         /\ calls[i].code = SDK_EXECUTION_ERROR_CODE

\* C3: when a synchronous call fails with the execution-error code in
\* diagnostic mode, the replay is run once, the call is never resubmitted,
\* and the terminal result is a non-empty failure, never a success.
C3_ReplayEndsInNonEmptyFailure ==
    (ExecutionFailureDiagnosed /\ pc = "done") =>
      /\ Count("Message::construct_from_base64") = 1
      /\ Count("execute_debug") <= 1
      /\ Len(replayed) <= 1
      /\ Count("process_message") = 1
      /\ Count("send_message") = 0
      /\ Len(submitted) <= 1
      /\ ~ret.ok
      /\ ret.err # << >>

-----------------------------------------------------------------------------
(* C4 *)

\* the replay machinery: blockchain-config reconstruction, account and
\* message re-materialization, the tracing executor
ReplayMachinery ==
    {"construct_blockchain_config", "Account::construct_from_base64",
     "Account::construct_from_base64(config_acc)", "Account::serialize",
     "Message::construct_from_base64", "execute_debug"}

\* C4: whenever the replay machinery fails, its error is reported on top of
\* an original on-chain execution failure: the message has been submitted,
\* it failed with the execution-error code, that failure was reported, and
\* the replay failure is returned.
C4_ReplayFailureLayered ==
    ( /\ InClient
      /\ pc = "done"
      /\ \E i \in DOMAIN calls : calls[i].op \in ReplayMachinery /\ ~calls[i].ok )
    => /\ ExecutionFailureDiagnosed
       /\ Prints(out, << "ClientError", ToString(SDK_EXECUTION_ERROR_CODE) >>)
       /\ ~ret.ok
       /\ ret.err # << >>

-----------------------------------------------------------------------------
(* C5 *)

\* C5: under every combination of the async, local-run and diagnostic flags
\* a fee-estimation call never submits: nothing is sent, waited for or
\* processed, no snapshot is fetched and no replay runs; the emulator runs at
\* most once, always with unlimited balance, on a dummy account exactly when
\* the fetch of the target account failed; and a fee call that succeeds has
\* run the emulator once, printed the six fee fields and returned null.
C5_FeeNeverSubmits ==
    (InClient /\ is_fee) =>
      /\ pc \notin {"send_message", "wait_for_transaction", "fetch_account",
                    "fetch_config", "process_message", "execute_debug", "panicked"}
      /\ \A i \in DOMAIN calls :
           calls[i].op \notin {"send_message", "wait_for_transaction", "process_message",
                               "send_message_and_wait", "execute_debug"}
      /\ submitted = << >>
      /\ SnapshotFetches = {}
      /\ Len(executor) <= 1
      /\ \A k \in DOMAIN executor :
           /\ executor[k].unlimited_balance
           /\ executor[k].message = << "boc", msg_params >>
           /\ executor[k].account = "dummy" <=> Failed("query_account_field(addr)")
      /\ Succeeded("run_executor") =>
           /\ pc = "done"
           /\ ret = Ok("null")
      /\ (pc = "done" /\ ret.ok) =>
           /\ ret = Ok("null")
           /\ Len(executor) = 1
           /\ Count("run_executor") = 1
           /\ Prints(out, << "in_msg_fwd_fee", "storage_fee", "gas_fee",
                             "out_msgs_fwd_fee", "total_account_fees", "total_output" >>)

\* a fee estimation with every other flag set, for an address without an
\* account: the emulator ran on the dummy account and the call returned null
C5_Witness ==
    /\ InClient /\ is_fee /\ async_call /\ local_run /\ Enabled(debug_fail)
    /\ pc = "done"
    /\ ret = Ok("null")
    /\ Failed("query_account_field(addr)")
    /\ Len(executor) = 1
    /\ executor[1].account = "dummy"
    /\ executor[1].unlimited_balance

-----------------------------------------------------------------------------
(* C6 *)

\* C6: when the local emulation is performed and the executor reports a
\* failure, the invocation ends with that failure and nothing follows: no
\* send, wait, process, snapshot fetch or replay.
C6_EmulationFailureHalts ==
    InClient =>
      \A i \in DOMAIN calls :
        (calls[i].op = "run_executor" /\ ~calls[i].ok) =>
          /\ pc = "done"
          /\ ret = Err(<< "ClientError", ToString(calls[i].code) >>)
          /\ Len(calls) = i + 1
          /\ calls[i + 1] = [op |-> "emulate_locally", by |-> "call_contract_with_client",
                             ok |-> FALSE, code |-> calls[i].code]
          /\ submitted = << >>
          /\ replayed = << >>
          /\ SnapshotFetches = {}
          /\ ~dump.some

\* a local run (not a fee estimation) whose executor failed, in a mode that
\* would otherwise have submitted
C6_Witness ==
    /\ InClient /\ local_run /\ ~is_fee
    /\ pc = "done"
    /\ Failed("run_executor")
    /\ ~ret.ok /\ ret.err # << >>
    /\ submitted = << >>


-----------------------------------------------------------------------------
(* C7 *)

\* fetches of an account state (query_account_field)
FetchOps == {"query_account_field(addr)", "query_account_field(CONFIG_ADDR)"}

\* stages that may follow a fetch
LaterStages ==
    FetchOps \cup ReplayOps \cup SubmitOps
    \cup {"run_executor", "wait_for_transaction", "construct_blockchain_config",
          "Account::construct_from_base64", "Account::construct_from_base64(config_acc)"}

\* the failed fetch at position i ended the invocation with its own error
FetchFailureIsTerminal(i) ==
    /\ pc = "done"
    /\ ret = Err(<< calls[i].op >>)
    /\ \A j \in (i + 1) .. Len(calls) : calls[j].op \notin LaterStages
    /\ calls[i].by = "emulate_locally" => executor = << >>
    /\ submitted = << >>
    /\ replayed = << >>

\* C7, as stated: whenever a fetch of the target account state or of the
\* config-holder account state fails, the invocation terminates at once with
\* that fetch error: no retry, and no later stage.
C7_AsStated ==
    InClient =>
      \A i \in DOMAIN calls :
        (calls[i].op \in FetchOps /\ ~calls[i].ok) => FetchFailureIsTerminal(i)

\* C7, amended: whenever a fetch of the target account state or of the
\* config-holder account state fails, the invocation terminates at once with
\* that fetch error, with no retry and no later stage, except for the
\* emulator's fetch of the target account in fee-estimation mode: there the
\* emulator goes on with a dummy account (or fails to build it), and the
\* fetch is still not repeated.
C7_FetchFailureTerminal ==
    InClient =>
      \A i \in DOMAIN calls :
        (calls[i].op \in FetchOps /\ ~calls[i].ok) =>
          /\ \A j \in (i + 1) .. Len(calls) : calls[j].op \notin FetchOps
          /\ IF calls[i].by = "emulate_locally" /\ is_fee
             THEN \/ state = "dummy" /\ pc = "run_executor"
                  \/ state = "dummy" /\ pc = "done" /\ Len(executor) = 1
                  \/ state = "none" /\ pc = "done" /\ ~ret.ok /\ executor = << >>
             ELSE FetchFailureIsTerminal(i)

\* the fetch of the config-holder account failed after the target account
\* had been fetched: the invocation ended with that error, unsubmitted
C7_Witness ==
    /\ InClient /\ pc = "done"
    /\ \E i \in SnapshotFetches :
         /\ calls[i].op = "query_account_field(CONFIG_ADDR)"
         /\ ~calls[i].ok
         /\ i = Len(calls)
    /\ Succeeded("query_account_field(addr)")
    /\ ret = Err(<< "query_account_field(CONFIG_ADDR)" >>)
    /\ submitted = << >>

-----------------------------------------------------------------------------
(* C8 *)

\* C8: in asynchronous mode the submission engine sends the message once
\* and returns right after acceptance: wait_for_transaction is never called,
\* no transaction is looked up, and the result on acceptance is {}.
C8_AsyncReturnsOnAcceptance ==
    async_call =>
      /\ pc # "wait_for_transaction"
      /\ ~Returned("wait_for_transaction")
      /\ ~Returned("process_message")
      /\ Count("send_message") <= 1
      /\ Len(submitted) <= 1
      /\ tx = NoTx
      /\ Succeeded("send_message") =>
           /\ pc = "done"
           /\ ret = Ok("{}")
           /\ submitted = << encoded >>

\* an asynchronous call accepted by the network
C8_Witness ==
    /\ InClient /\ async_call /\ ~is_fee
    /\ pc = "done"
    /\ Succeeded("send_message")
    /\ Len(submitted) = 1
    /\ ret = Ok("{}")

-----------------------------------------------------------------------------
(* C9 *)

\* o ends with the lines of part
EndsWith(o, part) ==
    /\ Len(o) >= Len(part)
    /\ SubSeq(o, Len(o) - Len(part) + 1, Len(o)) = part

\* C9: a synchronous call whose transaction finalizes returns exactly the
\* decoded output when the transaction has one and {} otherwise, never an
\* error; in interactive mode call_contract prints "Succeeded." right
\* before the result, and only when the call succeeded.
C9_SyncResultIsDecodedOutput ==
    /\ (InClient /\ Succeeded("process_message")) =>
         /\ pc = "done"
         /\ tx \in Transactions
         /\ ret.ok
         /\ (tx.decoded /\ tx.has_output) => ret.val = tx.output
         /\ ~(tx.decoded /\ tx.has_output) => ret.val = "{}"
    /\ (entry = "call_contract" /\ pc = "done") =>
         /\ (ret.ok /\ ~is_json) =>
              EndsWith(out, << "Succeeded." >>
                            \o (IF ret.val = "null" THEN << >>
                                ELSE << "Result: ", ret.val >>))
         /\ (\E k \in DOMAIN out : out[k] = "Succeeded.") => (ret.ok /\ ~is_json)
         /\ (ret.ok /\ is_json /\ ret.val # "null") => EndsWith(out, << ret.val >>)
    /\ (entry = "call_contract" /\ pc # "done") =>
         \A k \in DOMAIN out : out[k] # "Succeeded."

\* the scenario of the specification: the transaction finalizes with the
\* output {"value":42} in interactive mode
C9_Witness ==
    /\ entry = "call_contract" /\ ~is_json /\ ~async_call
    /\ pc = "done"
    /\ Succeeded("process_message")
    /\ tx.output = "{\"value\":42}"
    /\ ret = Ok("{\"value\":42}")
    /\ EndsWith(out, << "Succeeded.", "Result: ", "{\"value\":42}" >>)

-----------------------------------------------------------------------------
(* C10 *)

\* the failure at position i is the execution failure that triggers the replay
TriggersReplay(i) ==
    /\ calls[i].op = "process_message"
    /\ calls[i].code = SDK_EXECUTION_ERROR_CODE
    /\ Enabled(debug_fail)

\* C10: no stage is retried: under every flag combination the message is
\* submitted at most once, no operation is performed twice, and once a stage
\* of call_contract_with_client has returned a failure nothing further runs,
\* except the replay that the execution-error code triggers.
C10_NoStageRetried ==
    InClient =>
      /\ Count("send_message") + Count("process_message") <= 1
      /\ Len(submitted) <= 1
      /\ \A i, j \in DOMAIN calls :
           i < j => << calls[i].op, calls[i].by >> # << calls[j].op, calls[j].by >>
      /\ \A i \in DOMAIN calls :
           (calls[i].by = "call_contract_with_client" /\ ~calls[i].ok) =>
             IF TriggersReplay(i)
             THEN \A j \in (i + 1) .. Len(calls) : calls[j].op \in ReplayOps
             ELSE i = Len(calls) /\ pc = "done" /\ ~ret.ok

\* a synchronous submission failed with a code other than the recognized
\* one, in diagnostic mode after a local run: nothing ran after it
C10_Witness ==
    /\ InClient /\ pc = "done"
    /\ Enabled(debug_fail) /\ local_run
    /\ Len(submitted) = 1
    /\ calls[Len(calls)].op = "process_message"
    /\ calls[Len(calls)].code = SDK_EXECUTION_ERROR_CODE - 1
    /\ ~ret.ok

-----------------------------------------------------------------------------
(* C11 *)

\* C11: invocations of the pipeline are independent: an invocation of
\* call_contract_with_result that follows another one in the same process,
\* diagnostic mode included, shares no mutable state with it, so it ends as
\* if it had run alone.  An invocation that runs alone installs the logger
\* and never fails at set_boxed_logger.
C11_InvocationsIndependent ==
    entry = "call_contract" =>
      /\ ~Failed("set_boxed_logger")
      /\ pc = "done" => ret # Err(<< "Failed to set logger: ", "SetLoggerError" >>)

-----------------------------------------------------------------------------
(* C17 *)

\* the emulator's own fetch of the target account failed
EmulatorFetchFailed ==
    \E i \in DOMAIN calls :
      /\ calls[i].op = "query_account_field(addr)"
      /\ calls[i].by = "emulate_locally"
      /\ ~calls[i].ok

\* C17: the emulator hands a placeholder account to the executor only when
\* the fetch of the target account failed and fee mode is requested; in
\* non-fee mode a missing account ends the invocation with an error and the
\* executor is never run; the executor is told that the balance is unlimited
\* exactly when fee mode is requested.
C17_PlaceholderOnlyInFeeMode ==
    InClient =>
      /\ state = "dummy" => (is_fee /\ EmulatorFetchFailed)
      /\ \A k \in DOMAIN executor :
           /\ executor[k].account = "dummy" => (is_fee /\ EmulatorFetchFailed)
           /\ executor[k].account = "fetched" => ~EmulatorFetchFailed
           /\ executor[k].unlimited_balance <=> is_fee
      /\ (EmulatorFetchFailed /\ ~is_fee) =>
           /\ executor = << >>
           /\ pc = "done"
           /\ ret = Err(<< "query_account_field(addr)" >>)
           /\ submitted = << >>

\* a local run in non-fee mode for a missing account: a hard error, the
\* executor never ran
C17_Witness ==
    /\ InClient /\ local_run /\ ~is_fee
    /\ pc = "done"
    /\ EmulatorFetchFailed
    /\ executor = << >>
    /\ ~ret.ok

-----------------------------------------------------------------------------
(* C19 *)

\* C19: the two unwraps on optional state never fail, whatever the flags
\* and the outcomes of the earlier stages: the encoded message is present
\* whenever the snapshot tuple is about to be built, and the snapshot tuple
\* is present whenever the replay is triggered.
C19_UnwrapsNeverFail ==
    /\ pc # "panicked"
    /\ pc \in {"fetch_account", "fetch_config"} =>
         /\ message.some
         /\ message.v = << "boc", msg_params >>
    /\ (InClient /\ Enabled(debug_fail) /\ pc = "process_message") => dump.some
    /\ (pc = "execute_debug" \/ ReplayStarted) =>
         /\ dump.some
         /\ dump.v.message = message.v

\* diagnostic mode alone asks for the encoded message: the replay is
\* reached with the snapshot tuple in hand
C19_Witness ==
    /\ InClient /\ ~is_fee /\ ~async_call /\ ~local_run /\ Enabled(debug_fail)
    /\ pc = "execute_debug"
    /\ dump.some
    /\ message.some

-----------------------------------------------------------------------------
(* C20 *)

\* C20: in asynchronous mode call_contract_with_client never fetches the
\* replay snapshots and never runs the replay, even with diagnostic mode
\* enabled and a submission that fails with the execution-error code; the
\* submission error is the terminal failure.
C20_AsyncNeverReplays ==
    (InClient /\ async_call) =>
      /\ pc \notin {"fetch_account", "fetch_config", "process_message",
                    "execute_debug", "panicked"}
      /\ SnapshotFetches = {}
      /\ ~dump.some
      /\ ~ReplayStarted
      /\ replayed = << >>
      /\ \A i \in DOMAIN calls :
           (calls[i].op = "send_message" /\ ~calls[i].ok) =>
             /\ pc = "done"
             /\ ret = Err(<< "ClientError", ToString(calls[i].code) >>)
             /\ Len(calls) = i + 1

\* an asynchronous diagnostic call whose send fails with the
\* execution-error code
C20_Witness ==
    /\ InClient /\ async_call /\ Enabled(debug_fail) /\ ~is_fee
    /\ pc = "done"
    /\ \E i \in DOMAIN calls :
         /\ calls[i].op = "send_message"
         /\ ~calls[i].ok
         /\ calls[i].code = SDK_EXECUTION_ERROR_CODE
    /\ ret = Err(<< "ClientError", ToString(SDK_EXECUTION_ERROR_CODE) >>)

-----------------------------------------------------------------------------
(* C16 *)

\* every accepted message has its DidSend event, in order
EveryAcceptedMessageHasEvent ==
    /\ Len(events) = Len(submitted)
    /\ \A k \in DOMAIN events :
         /\ events[k].type = "DidSend"
         /\ events[k].message_id = << "id" >> \o submitted[k]

\* the MessageId lines printed so far
MessageIdLines == Cardinality({ k \in DOMAIN out : out[k] = "MessageId: " })

\* C16, as stated: every time a message is accepted by the network, on
\* either submission path and in every output mode, an event carrying the
\* message identifier is emitted, and the value returned does not depend on
\* the event being observed.
C16_AsStated ==
    /\ EveryAcceptedMessageHasEvent
    /\ (pc = "done" /\ Succeeded("process_message")) =>
         ret.ok /\ ret.val \in Outputs \cup {"{}"}

\* C16, amended: every time a message is accepted by the network on the
\* process_message path, in every output mode, a DidSend event carrying the
\* message identifier is delivered (it is printed as a MessageId line in
\* interactive mode only), and the value returned does not depend on it;
\* on the send_message_and_wait path no event is delivered.
C16_EventOnProcessPath ==
    /\ (InClient /\ ~async_call) => EveryAcceptedMessageHasEvent
    /\ (async_call \/ entry = "call_contract_with_msg") => events = << >>
    /\ MessageIdLines = (IF is_json THEN 0 ELSE Len(events))
    /\ (pc = "done" /\ Succeeded("process_message")) =>
         ret.ok /\ ret.val \in Outputs \cup {"{}"}
    /\ (pc = "done" /\ Failed("process_message") /\ ~ReplayStarted) =>
         ret = Err(<< "ClientError", ToString(res.code) >>)

\* a message accepted on the process_message path in JSON mode: the event
\* is delivered though nothing is printed, and the output is returned
C16_Witness ==
    /\ InClient /\ is_json /\ ~async_call
    /\ pc = "done"
    /\ Len(submitted) = 1
    /\ events = << [type |-> "DidSend", message_id |-> << "id", "boc", msg_params >>] >>
    /\ MessageIdLines = 0
    /\ ret.ok /\ ret.val \in Outputs

-----------------------------------------------------------------------------
(* C18 *)

-----------------------------------------------------------------------------
(* The parameter builder: parse_params and build_json_from_params.          *)
(* A token is a sequence of one-character strings.                          *)

\* tokens in a params_vec
MaxTokens == 3

\* str::trim_start_matches(ch)
RECURSIVE TrimStartMatches(_, _)
TrimStartMatches(s, ch) ==
    IF s # << >> /\ Head(s) = ch THEN TrimStartMatches(Tail(s), ch) ELSE s

\* str::trim_end_matches(ch)
RECURSIVE TrimEndMatches(_, _)
TrimEndMatches(s, ch) ==
    IF s # << >> /\ s[Len(s)] = ch
    THEN TrimEndMatches(SubSeq(s, 1, Len(s) - 1), ch)
    ELSE s

\* str::trim_matches(ch)
TrimMatches(s, ch) == TrimEndMatches(TrimStartMatches(s, ch), ch)

\* str::ends_with(ch)
EndsWithChar(s, ch) == s # << >> /\ s[Len(s)] = ch

Digits == {"0", "1", "2", "3", "4", "5", "6", "7", "8", "9"}

\* convert::convert_token: a token amount to its base integer representation
\* (nine decimal places); anything but a number is an error
convert_token(s) ==
    IF s # << >> /\ \A k \in DOMAIN s : s[k] \in Digits
    THEN Ok(s \o << "0", "0", "0", "0", "0", "0", "0", "0", "0" >>)
    ELSE Err([kind |-> "convert", name |-> s, type |-> ""])

\* call.rs:155-163
parse_integer_param(value) ==
    LET v == TrimMatches(value, "\"")
    IN IF EndsWithChar(v, "T")
       THEN convert_token(TrimEndMatches(v, "T"))
       ELSE Ok(v)

\* call.rs:189  value.split(|c| c == ',' || c == '[' || c == ']'): the pieces
\* between the delimiters, the empty ones included
RECURSIVE Split(_, _)
Split(s, piece) ==
    IF s = << >> THEN << piece >>
    ELSE IF Head(s) \in {",", "[", "]"}
    THEN << piece >> \o Split(Tail(s), << >>)
    ELSE Split(Tail(s), Append(piece, Head(s)))

\* call.rs:188-194  the elements of an array of unsigned integers
RECURSIVE ParseArray(_, _)
ParseArray(pieces, result_vec) ==
    IF pieces = << >> THEN Ok(result_vec)
    ELSE IF Head(pieces) = << >> THEN ParseArray(Tail(pieces), result_vec)
    ELSE LET r == parse_integer_param(Head(pieces))
         IN IF ~r.ok THEN r
            ELSE ParseArray(Tail(pieces), Append(result_vec, r.val))

\* ParamType of an input: the kinds the builder tells apart
IsInteger(kind) == kind \in {"uint256", "int8"}
IsUintArray(kind) == kind = "uint256[]"

\* call.rs:182-202  the JSON value of an input
ParamValue(kind, value) ==
    IF IsInteger(kind) THEN parse_integer_param(value)
    ELSE IF IsUintArray(kind) THEN ParseArray(Split(value, << >>), << >>)
    ELSE Ok(value)

\* call.rs:174-175  iter.find(|x| x.trim_start_matches('-') == input.name):
\* the position of the first token that names the input, 0 if there is none
FindName(params_vec, name) ==
    LET hits == { i \in DOMAIN params_vec : TrimStartMatches(params_vec[i], "-") = name }
    IN IF hits = {} THEN 0
       ELSE CHOOSE i \in hits : \A j \in hits : i <= j

\* mutant of NextValue: a name at the end of the list gets an empty value
NextValue_Defaults(params_vec, i) ==
    IF i < Len(params_vec) THEN Some(params_vec[i + 1]) ELSE Some(<< >>)

\* call.rs:178  iter.next(): the token after position i, if any
NextValue(params_vec, i) ==
    IF i < Len(params_vec) THEN Some(params_vec[i + 1]) ELSE None

\* params_json[input.name] = value
JsonSet(json, name, value) ==
    [n \in DOMAIN json \cup {name} |-> IF n = name THEN value ELSE json[n]]

\* call.rs:173-206  the loop over the declared inputs, from input k on
RECURSIVE BuildInputs(_, _, _, _)
BuildInputs(params_vec, inputs, k, params_json) ==
    IF k > Len(inputs) THEN Ok([json |-> params_json])
    ELSE LET input == inputs[k]
             i == FindName(params_vec, input.name)
             next == NextValue(params_vec, i)
         IN IF i = 0
            THEN Err([kind |-> "not found", name |-> input.name, type |-> input.kind])
            ELSE IF ~next.some
            THEN Err([kind |-> "has no value", name |-> input.name, type |-> input.kind])
            ELSE LET value == ParamValue(input.kind, next.v)
                 IN IF ~value.ok THEN value
                    ELSE BuildInputs(params_vec, inputs, k + 1,
                                     JsonSet(params_json, input.name, value.val))

\* call.rs:165-207
build_json_from_params(params_vec, abi, method) ==
    IF abi.malformed
    THEN Err([kind |-> "failed to parse ABI", name |-> << >>, type |-> ""])
    ELSE IF method \notin DOMAIN abi.functions
    THEN Err([kind |-> "failed to load function from abi", name |-> << >>, type |-> ""])
    ELSE BuildInputs(params_vec, abi.functions[method], 1, << >>)

\* call.rs:547-554
parse_params(params_vec, abi, method) ==
    IF Len(params_vec) = 1
    THEN Ok([raw |-> params_vec[1]])
    ELSE build_json_from_params(params_vec, abi, method)

\* the tokens of the command lines studied: names, values, a token amount,
\* a malformed amount, an array, a complete JSON object
Tokens ==
    { << "-", "-", "a" >>, << "-", "-", "b" >>, << "7" >>, << "2", "T" >>,
      << "x", "T" >>, << "[", "1", ",", "2", "T", "]" >>, << "{", "}" >> }

RECURSIVE TokenLists(_)
TokenLists(n) ==
    IF n = 0 THEN { << >> }
    ELSE LET shorter == TokenLists(n - 1)
         IN shorter \cup { Append(l, t) : l \in { s \in shorter : Len(s) = n - 1 }, t \in Tokens }

Input(name, kind) == [name |-> name, kind |-> kind]

\* the declared inputs of the method of the ABIs studied
InputLists ==
    { << >>,
      << Input(<< "a" >>, "uint256") >>,
      << Input(<< "a" >>, "string"), Input(<< "b" >>, "string") >>,
      << Input(<< "a" >>, "uint256"), Input(<< "b" >>, "address") >>,
      << Input(<< "b" >>, "int8"), Input(<< "a" >>, "uint256[]") >> }

Abis ==
    { [malformed |-> TRUE, functions |-> << >>] }
    \cup { [malformed |-> FALSE, functions |-> [m \in {"f"} |-> il]] : il \in InputLists }

InitParams ==
    /\ PipelineIdle
    /\ fn_result = << >>
    /\ \E params_vec \in TokenLists(MaxTokens), abi \in Abis, method \in {"f", "g"} :
         fn_args = [fn |-> "parse_params", params_vec |-> params_vec,
                    abi |-> abi, method |-> method]

\* parse_params is called on the arguments
ParseParams ==
    /\ fn_result = << >>
    /\ fn_result' = << parse_params(fn_args.params_vec, fn_args.abi, fn_args.method) >>
    /\ UNCHANGED << fn_args, pc, entry, ncalls, logger_set, is_json, async_call, local_run,
                    debug_fail, is_fee, msg_params, encoded, message, state, dump, res,
                    tx, submitted, replayed, executor, calls, out, ret, final, events >>

NextParams == ParseParams

SpecParams == InitParams /\ [][NextParams]_vars

-----------------------------------------------------------------------------
(* Vocabulary of the claims about the parameter builder.                    *)

\* the function has been applied, and what it returned
Ran(fn) == fn_args # << >> /\ fn_args.fn = fn /\ fn_result # << >>
Result == fn_result[1]

\* the ABI loads and declares the method
MethodDeclared ==
    ~fn_args.abi.malformed /\ fn_args.method \in DOMAIN fn_args.abi.functions
DeclaredInputs == fn_args.abi.functions[fn_args.method]

\* the positions of the tokens that name an input
NamePositions(name) ==
    { i \in DOMAIN fn_args.params_vec :
        TrimStartMatches(fn_args.params_vec[i], "-") = name }

\* a name token followed by some token is supplied for the input
Supplied(input) ==
    \E i \in NamePositions(input.name) : i < Len(fn_args.params_vec)

\* the declared inputs no pair is supplied for
MissingInputs == { k \in DOMAIN DeclaredInputs : ~Supplied(DeclaredInputs[k]) }

\* the error names a missing argument
NamesMissingArgument(err) ==
    /\ err.kind \in {"not found", "has no value"}
    /\ \E k \in MissingInputs : err.name = DeclaredInputs[k].name

\* the value token of an input declared before input k fails its conversion
EarlierConversionFails(k) ==
    \E j \in 1..(k - 1) :
      \E i \in NamePositions(DeclaredInputs[j].name) :
        /\ i < Len(fn_args.params_vec)
        /\ \A h \in NamePositions(DeclaredInputs[j].name) : i <= h
        /\ ~ParamValue(DeclaredInputs[j].kind, fn_args.params_vec[i + 1]).ok

\* C12 as stated: whenever a declared input has no pair, parse_params returns
\* an error that names a missing argument, never a success or another error.
C12_AsStated ==
    (Ran("parse_params") /\ MethodDeclared /\ MissingInputs # {})
        => (~Result.ok /\ NamesMissingArgument(Result.err))

\* C12 (amended): when the token list does not consist of a single token and
\* a declared input has no pair, parse_params never succeeds; its error names
\* the first declared input without a pair and that input's declared type,
\* unless the value of an input declared earlier fails the integer
\* conversion, in which case the conversion error is returned.
C12_MissingArgumentNamed ==
    (Ran("parse_params") /\ MethodDeclared /\ Len(fn_args.params_vec) # 1
        /\ MissingInputs # {})
        => LET k == CHOOSE m \in MissingInputs : \A n \in MissingInputs : m <= n
               input == DeclaredInputs[k]
           IN /\ ~Result.ok
              /\ \/ /\ Result.err.name = input.name
                    /\ Result.err.type = input.kind
                    /\ Result.err.kind =
                         IF NamePositions(input.name) = {} THEN "not found"
                         ELSE "has no value"
                 \/ /\ Result.err.kind = "convert"
                    /\ EarlierConversionFails(k)

\* a list of several tokens ends with the name of a declared input, and the
\* builder reports that the argument has no value
C12_Witness ==
    /\ Ran("parse_params") /\ MethodDeclared
    /\ Len(fn_args.params_vec) > 1
    /\ MissingInputs # {}
    /\ ~Result.ok
    /\ Result.err.kind = "has no value"

\* the stored value of the input is what the builder makes of token j
StoredFrom(input, j) ==
    ParamValue(input.kind, fn_args.params_vec[j]) = Ok(Result.val.json[input.name])

\* C13: when more than one token is supplied and the builder succeeds, every
\* declared input has its own name token, the value stored for it comes from
\* the token right after that name token, and that value token is not the
\* name token of any declared input.
C13_NamesAndValuesDisjoint ==
    (Ran("parse_params") /\ MethodDeclared /\ Len(fn_args.params_vec) > 1 /\ Result.ok)
        => \A k \in DOMAIN DeclaredInputs :
             \E i \in NamePositions(DeclaredInputs[k].name) :
                /\ i < Len(fn_args.params_vec)
                /\ StoredFrom(DeclaredInputs[k], i + 1)
                /\ \A q \in DOMAIN DeclaredInputs :
                     (i + 1) \notin NamePositions(DeclaredInputs[q].name)

-----------------------------------------------------------------------------
(* The config-update builder: serialize_config_param.                       *)

\* top-level keys in a "new_param_file" object
MaxKeys == 2

\* u32::MAX in decimal
U32MaxDigits == << "4", "2", "9", "4", "9", "6", "7", "2", "9", "5" >>

\* the value of a decimal digit
DigitValue(c) ==
    CHOOSE n \in 0..9 : << "0", "1", "2", "3", "4", "5", "6", "7", "8", "9" >>[n + 1] = c

AllDigits(s) == \A k \in DOMAIN s : s[k] \in Digits

\* the number a string of digits denotes, as its plain decimal numeral
RECURSIVE DecimalValue(_)
DecimalValue(s) ==
    IF Len(s) > 1 /\ Head(s) = "0" THEN DecimalValue(Tail(s)) ELSE s

\* numerals of the same length: a <= b
RECURSIVE NumeralLeq(_, _)
NumeralLeq(a, b) ==
    IF a = << >> THEN TRUE
    ELSE IF Head(a) # Head(b) THEN DigitValue(Head(a)) < DigitValue(Head(b))
    ELSE NumeralLeq(Tail(a), Tail(b))

\* the numeral fits 32 bits
FitsU32(numeral) ==
    \/ Len(numeral) < Len(U32MaxDigits)
    \/ Len(numeral) = Len(U32MaxDigits) /\ NumeralLeq(numeral, U32MaxDigits)

\* str::parse::<u32>(): an optional plus sign, then one digit or more, and
\* the value has to fit 32 bits
ParseU32(s) ==
    LET digits == IF s # << >> /\ Head(s) = "+" THEN Tail(s) ELSE s
    IN IF s = << >> THEN Err("cannot parse integer from empty string")
       ELSE IF digits = << >> \/ ~AllDigits(digits) THEN Err("invalid digit found in string")
       ELSE IF ~FitsU32(DecimalValue(digits)) THEN Err("number too large to fit in target type")
       ELSE Ok(DecimalValue(digits))

\* str::starts_with("p")
StartsWithP(key) == key # << >> /\ Head(key) = "p"

\* mutant of HasOneKey: the number of keys is not looked at
HasOneKey_Unchecked(config_json) == config_json # << >>

\* call.rs:62  config_json.len() == 1
HasOneKey(config_json) == Len(config_json) = 1

\* ton_block_json::parse_config: the parameters an object holds, each under
\* the key "p" followed by its number in plain decimal
ParamOfKey(key) ==
    LET rest == Tail(key)
    IN IF StartsWithP(key) /\ rest # << >> /\ AllDigits(rest)
          /\ DecimalValue(rest) = rest /\ FitsU32(rest)
       THEN { rest }
       ELSE {}

parse_config(config_json, values_ok) ==
    IF values_ok
    THEN Ok(UNION { ParamOfKey(config_json[k]) : k \in DOMAIN config_json })
    ELSE Err("parse_config")

\* a step of serialize_config_param fails with the code's message
Reject(kind, detail, steps) ==
    << Err([kind |-> kind, name |-> detail, type |-> ""]), steps >>

\* call.rs:57-93  The result, and the stages that were run to get it.
\* doc.syntax is what serde_json makes of the text, doc.keys the top-level
\* keys in the order the map yields them, doc.values_ok whether the values
\* are well-formed parameters, doc.cell what write_to_cell produces.
serialize_config_param(doc) ==
    IF doc.syntax = "malformed"
    THEN Reject("failed to parse \"new_param_file\"", "", << >>)
    ELSE IF doc.syntax # "object"
    THEN Reject("\"new_param_file\" is not json object", "", << >>)
    ELSE IF ~HasOneKey(doc.keys)
    THEN Reject("\"new_param_file\" is not a valid json", "", << >>)
    ELSE LET key == doc.keys[1]
             key_number == ParseU32(TrimStartMatches(key, "p"))
             config_params == parse_config(doc.keys, doc.values_ok)
         IN IF ~StartsWithP(key)
            THEN Reject("\"new_param_file\" is not a valid json", "", << >>)
            ELSE IF ~key_number.ok
            THEN Reject("\"new_param_file\" is not a valid json", key_number.err, << >>)
            ELSE IF ~config_params.ok
            THEN Reject("failed to parse config params from \"new_param_file\"", "",
                        << "parse_config" >>)
            ELSE IF key_number.val \notin config_params.val
            THEN Reject("Not found config number in parsed config_params", key_number.val,
                        << "parse_config", "config" >>)
            ELSE IF doc.cell = "error"
            THEN Reject("failed to serialize config param", "",
                        << "parse_config", "config", "write_to_cell" >>)
            ELSE IF doc.cell = "no reference"
            THEN << [ok |-> FALSE, val |-> "panicked", err |-> << >>],
                    << "parse_config", "config", "write_to_cell" >> >>
            ELSE << Ok([config_cell |-> << "cell", key >>, key_number |-> key_number.val]),
                    << "parse_config", "config", "write_to_cell" >> >>

\* the top-level keys studied
Keys ==
    { << "p", "7" >>, << "p", "3", "4" >>, << "p", "p", "7" >>, << "p", "+", "7" >>,
      << "p", "0", "7" >>, << "p" >>, << "x", "7" >>, << "7" >>, << "p", "-", "1" >>,
      << "p", "7", "x" >>, << "P", "7" >>, << >>,
      << "p", "4", "2", "9", "4", "9", "6", "7", "2", "9", "6" >> }

\* the key lists of at most n distinct keys
RECURSIVE KeyLists(_)
KeyLists(n) ==
    IF n = 0 THEN { << >> }
    ELSE LET shorter == KeyLists(n - 1)
         IN shorter \cup
            { Append(l, k) : l \in { s \in shorter : Len(s) = n - 1 }, k \in Keys }

Distinct(l) == \A i, j \in DOMAIN l : i # j => l[i] # l[j]

Docs ==
    { [syntax |-> s, keys |-> << >>, values_ok |-> FALSE, cell |-> "error"] :
        s \in {"malformed", "array"} }
    \cup { [syntax |-> "object", keys |-> l, values_ok |-> v, cell |-> c] :
             l \in { k \in KeyLists(MaxKeys) : Distinct(k) }, v \in BOOLEAN,
             c \in {"error", "no reference", "reference"} }

-----------------------------------------------------------------------------
(* The config-update builder: prepare_message_new_config_param.             *)

PREFIX_UPDATE_CONFIG_MESSAGE_DATA == "43665021"

\* A u32 is kept as its two 16-bit halves, a u64 as its high 32 bits and
\* the two halves of its low 32 bits.
Half == 65536
U32(hi, lo) == [hi |-> hi, lo |-> lo]
U32Max == U32(Half - 1, Half - 1)

\* `as u32` of a u64: the low 32 bits
AsU32(n) == U32(n.hi, n.lo)

\* `as i32` of a u32: the same 32 bits read as a signed number
AsI32(n) ==
    IF n.hi >= Half \div 2 THEN (n.hi - Half) * Half + n.lo ELSE n.hi * Half + n.lo

\* u32 addition of a small number: the wrapped sum, and whether it overflowed
AddU32(n, k) ==
    LET lo == n.lo + k
        hi == n.hi + (lo \div Half)
    IN [sum |-> U32(hi % Half, lo % Half), overflow |-> hi >= Half]

\* BuilderData: the appended fields with their widths, and the references
Cell(data, refs) == [data |-> data, refs |-> refs]

\* Cell::repr_hash, injective on the cells of the model
repr_hash(cell) == [hash_of |-> cell]

\* ed25519: keys are 32 bytes long; a signature binds the key and the bytes
ValidSecretKey(bytes) == bytes.len = 32
PublicKey(secret) == [public_of |-> secret]
Sign(secret, bytes) == [signed_by |-> secret, over |-> bytes]
Verify(public, bytes, signature) ==
    public = PublicKey(signature.signed_by) /\ signature.over = bytes

\* call.rs:106-109  the scalar fields of the unsigned record
RecordFields(prefix, seqno, since_the_epoch, key_number) ==
    << << prefix, 32 >>, << seqno, 32 >>, << since_the_epoch, 32 >>,
       << AsI32(key_number), 32 >> >>

\* mutant of SignedRecordFields: sequence number and timestamp change places
SignedRecordFields_Swapped(prefix, seqno, since_the_epoch, key_number) ==
    << << prefix, 32 >>, << since_the_epoch, 32 >>, << seqno, 32 >>,
       << AsI32(key_number), 32 >> >>

\* call.rs:121-124  the scalar fields of the signed record, after the signature
SignedRecordFields(prefix, seqno, since_the_epoch, key_number) ==
    << << prefix, 32 >>, << seqno, 32 >>, << since_the_epoch, 32 >>,
       << AsI32(key_number), 32 >> >>

\* call.rs:95-133  `now` is the clock reading in seconds; `build` tells
\* whether u32 additions are checked (they panic on overflow) or wrap.
prepare_message_new_config_param(config_param, seqno, key_number, config_account, private_key_of_config_account, now, build) ==
    LET prefix == PREFIX_UPDATE_CONFIG_MESSAGE_DATA
        since_the_epoch == AddU32(AsU32(now), 100)
        unsigned == Cell(RecordFields(prefix, seqno, since_the_epoch.sum, key_number),
                         << config_param >>)
        msg_signature == Sign(private_key_of_config_account, repr_hash(unsigned))
        signed == Cell(<< << msg_signature, 64 * 8 >> >>
                         \o SignedRecordFields(prefix, seqno, since_the_epoch.sum, key_number),
                       << config_param >>)
        header == [src |-> "AddrNone",
                   dst |-> [workchain_id |-> -1, address |-> config_account],
                   import_fee |-> 0]
    IN IF build = "checked" /\ since_the_epoch.overflow
       THEN [ok |-> FALSE, val |-> "panicked", err |-> << >>]
       ELSE IF ~ValidSecretKey(private_key_of_config_account)
       THEN Err([kind |-> "failed to read private key from config-master file",
                 name |-> << >>, type |-> ""])
       ELSE Ok([header |-> header, body |-> signed])

\* the inputs studied
SecretKeys == { [len |-> 32, id |-> "k1"], [len |-> 32, id |-> "k2"], [len |-> 31, id |-> "k3"] }
ParameterCells == { << "cell", << "p", "7" >> >>, << "cell", << "p", "3", "4" >> >> }
ClockReadings ==
    { [high |-> 0, hi |-> 0, lo |-> 1000], [high |-> 0, hi |-> Half - 1, lo |-> Half - 50],
      [high |-> 1, hi |-> 0, lo |-> 6] }

InitSerialize ==
    \E doc \in Docs :
       fn_args = [fn |-> "serialize_config_param", config_str |-> doc]

InitPrepare ==
    \E config_param \in ParameterCells, seqno \in {U32(0, 0), U32(0, 1), U32Max},
       key_number \in {U32(0, 7), U32(0, 34), U32(Half \div 2, 0), U32Max},
       key \in SecretKeys,
       now \in ClockReadings, build \in {"checked", "wrapping"} :
       fn_args = [fn |-> "prepare_message_new_config_param", config_param |-> config_param,
                  seqno |-> seqno, key_number |-> key_number, config_account |-> "config",
                  private_key_of_config_account |-> key, now |-> now, build |-> build]

InitConfig ==
    /\ PipelineIdle
    /\ fn_result = << >>
    /\ (InitSerialize \/ InitPrepare)

\* serialize_config_param is called on the document
SerializeConfigParam ==
    /\ fn_args.fn = "serialize_config_param"
    /\ fn_result = << >>
    /\ fn_result' = serialize_config_param(fn_args.config_str)
    /\ UNCHANGED << fn_args, pc, entry, ncalls, logger_set, is_json, async_call, local_run,
                    debug_fail, is_fee, msg_params, encoded, message, state, dump, res,
                    tx, submitted, replayed, executor, calls, out, ret, final, events >>

\* prepare_message_new_config_param is called on the arguments
PrepareMessage ==
    /\ fn_args.fn = "prepare_message_new_config_param"
    /\ fn_result = << >>
    /\ fn_result' = << prepare_message_new_config_param(
                          fn_args.config_param, fn_args.seqno, fn_args.key_number,
                          fn_args.config_account, fn_args.private_key_of_config_account,
                          fn_args.now, fn_args.build) >>
    /\ UNCHANGED << fn_args, pc, entry, ncalls, logger_set, is_json, async_call, local_run,
                    debug_fail, is_fee, msg_params, encoded, message, state, dump, res,
                    tx, submitted, replayed, executor, calls, out, ret, final, events >>

NextConfig == SerializeConfigParam \/ PrepareMessage

SpecConfig == InitConfig /\ [][NextConfig]_vars

-----------------------------------------------------------------------------
(* Vocabulary of the claims about the config-update builder.                *)

\* the stages serialize_config_param ran
Steps == fn_result[2]
Ran2(fn) == fn_args # << >> /\ fn_args.fn = fn /\ Len(fn_result) = 2

\* a parameter number: one decimal digit or more, within 32 bits
IsParameterNumber(s) == s # << >> /\ AllDigits(s) /\ FitsU32(DecimalValue(s))

\* the object does not have exactly one top-level key
WrongKeyCount == fn_args.config_str.syntax = "object" /\ Len(fn_args.config_str.keys) # 1

\* the single key does not start with p
WrongPrefix ==
    /\ fn_args.config_str.syntax = "object" /\ Len(fn_args.config_str.keys) = 1
    /\ (fn_args.config_str.keys[1] = << >> \/ Head(fn_args.config_str.keys[1]) # "p")

\* what follows the p of the single key is not a parameter number
WrongNumber ==
    /\ fn_args.config_str.syntax = "object" /\ Len(fn_args.config_str.keys) = 1
    /\ fn_args.config_str.keys[1] # << >> /\ Head(fn_args.config_str.keys[1]) = "p"
    /\ ~IsParameterNumber(Tail(fn_args.config_str.keys[1]))

\* the function returned an error: no crash, no success
Rejected == ~Result.ok /\ Result.val # "panicked" /\ Result.err # << >>

\* C14: for an object that does not have exactly one top-level key, whose
\* key does not start with p, or whose key does not continue with a
\* parameter number, serialize_config_param returns an error without
\* writing any parameter cell, and does not crash; in the first two cases
\* the error is the key check's, raised before the parameters are parsed.
C14_InvalidInputRejected ==
    Ran2("serialize_config_param")
        => /\ (WrongKeyCount \/ WrongPrefix \/ WrongNumber)
                => (Rejected /\ \A k \in DOMAIN Steps : Steps[k] # "write_to_cell")
           /\ (WrongKeyCount \/ WrongPrefix)
                => (Result.err.kind = "\"new_param_file\" is not a valid json"
                    /\ Steps = << >>)

\* the key pp7 passes the key check as number 7 and is rejected by the
\* parameter lookup
C14_Witness ==
    /\ Ran2("serialize_config_param")
    /\ WrongNumber
    /\ fn_args.config_str.keys[1] = << "p", "p", "7" >>
    /\ Rejected
    /\ Steps = << "parse_config", "config" >>

\* C15: the signature signs the hash of the unsigned record (prefix,
\* sequence number, timestamp, parameter number, parameter-cell reference);
\* the body is the 512-bit signature followed by the same four scalars and
\* the same reference in the same order, so the signature verifies against
\* the unsigned record rebuilt from the body.
C15_SignedBodyVerifies ==
    (Ran("prepare_message_new_config_param") /\ Result.ok)
        => LET body == Result.val.body
               signature == body.data[1][1]
               timestamp == AddU32(AsU32(fn_args.now), 100).sum
               record == Cell(<< << PREFIX_UPDATE_CONFIG_MESSAGE_DATA, 32 >>,
                                 << fn_args.seqno, 32 >>, << timestamp, 32 >>,
                                 << AsI32(fn_args.key_number), 32 >> >>,
                              << fn_args.config_param >>)
               rebuilt == Cell(Tail(body.data), body.refs)
           IN /\ body.data[1][2] = 512
              /\ signature.over = repr_hash(record)
              /\ rebuilt = record
              /\ Verify(PublicKey(fn_args.private_key_of_config_account),
                        repr_hash(rebuilt), signature)

\* a message is built for a parameter number whose cast to i32 is negative,
\* with a sequence number that differs from the timestamp
C15_Witness ==
    /\ Ran("prepare_message_new_config_param")
    /\ Result.ok
    /\ fn_args.key_number = U32Max
    /\ Result.val.body.data[5][1] = -1
    /\ Len(Result.val.body.data) = 5
    /\ Result.val.body.refs = << fn_args.config_param >>

=============================================================================
